---- MODULE Spec2Model ----
(***************************************************************************)
(* Model of the storage engine of crypto_tracker (src/src/storage) and of  *)
(* the sentiment classifier (src/src/utils/sentiment_analyzer.py).         *)
(*                                                                         *)
(* The store is the SQLite file MarketDatabase opens.  A table is a set of *)
(* rows; a row is a record of its columns, the AUTOINCREMENT id included.  *)
(* The created_at column (DEFAULT CURRENT_TIMESTAMP) is left out: it is    *)
(* the wall clock at the time of the INSERT and no operation reads it.     *)
(* SQL NULL is the empty tuple <<>> and a non-null value v of a value      *)
(* column is the tuple <<v>>; key columns hold plain values.  A timestamp  *)
(* is <<day, slot>>: the calendar day DATE() truncates it to and the       *)
(* position of the instant within that day.  Computed REAL values (the     *)
(* percentages, the averages) are fixed-point integers in tenths, and the  *)
(* arithmetic is exact: the rounding of IEEE doubles is not modelled.      *)
(***************************************************************************)
EXTENDS Integers, Sequences, FiniteSets, TLC

\* ---------------------------------------------------------------- bounds
MaxRecords == 3       \* records handed to the upserts in one behaviour
MaxComputes == 2      \* aggregation calls in one behaviour
MaxWrites == 1        \* ingestion steps after the first ingestion
MaxBars == 25         \* hourly bars of one asset on one day
MaxScore == 10000     \* compound scores range over -1.0000 .. 1.0000

\* ------------------------------------------------------ program constants
NULL == <<>>

\* schema.py TABLES: the tables initialize_database creates.
TABLES ==
  {"ohlc_hourly", "sentiment_daily", "etf_flows_daily", "market_metrics_daily",
   "funding_rates_snapshots", "open_interest_daily", "daily_market_snapshot",
   "schema_version"}

\* The target table of each upsert operation of MarketDatabase.
UpsertTables ==
  {"ohlc_hourly", "sentiment_daily", "etf_flows_daily", "market_metrics_daily",
   "funding_rates_snapshots", "open_interest_daily",
   "social_posts_raw", "news_articles_raw", "search_trends_raw"}

\* The natural key of each table: its UNIQUE constraint in schema.py for the
\* tables the schema defines; the key column of the INSERT statement for the
\* raw tables, which the schema does not define.
KeyCols ==
  [t \in UpsertTables \cup {"daily_market_snapshot"} |->
     CASE t = "ohlc_hourly"             -> <<"asset", "ts_utc">>
       [] t = "sentiment_daily"         -> <<"as_of_date">>
       [] t = "etf_flows_daily"         -> <<"as_of_date", "ticker">>
       [] t = "market_metrics_daily"    -> <<"as_of_date", "asset">>
       [] t = "funding_rates_snapshots" -> <<"ts_utc", "asset", "source">>
       [] t = "open_interest_daily"     -> <<"as_of_date", "asset", "source">>
       [] t = "daily_market_snapshot"   -> <<"as_of_date", "asset">>
       [] t = "social_posts_raw"        -> <<"post_id">>
       [] t = "news_articles_raw"       -> <<"article_url">>
       [] t = "search_trends_raw"       -> <<"ts_utc", "keyword">>]

\* The NOT NULL value columns of each table (schema.py); a NULL bound to one
\* of them makes the INSERT fail with an IntegrityError.
NotNullCols ==
  [t \in UpsertTables \cup {"daily_market_snapshot"} |->
     CASE t = "ohlc_hourly"             -> {"close"}
       [] t = "sentiment_daily"         -> {"fng_value", "classification"}
       [] t = "funding_rates_snapshots" -> {"funding_rate_pct"}
       [] t = "open_interest_daily"     -> {"open_interest_usd"}
       [] OTHER                         -> {}]

VARIABLES
  db,          \* the store: table name -> set of rows; DOMAIN db = existing tables
  seq,         \* sqlite_sequence: table name -> last AUTOINCREMENT id handed out
  lastOp,      \* the last call on the store and how it ended
  requested,   \* history: table -> the latest well-formed record passed to its upsert per key
  handed,      \* number of records handed to the upserts so far
  writes,      \* number of ingestion steps since the first ingestion run
  computes,    \* number of aggregation calls so far
  score,       \* the compound score handed to classify_sentiment
  run          \* run_full_ingestion: its position, the stage results and the report

vars == <<db, seq, lastOp, requested, handed, writes, computes, score, run>>

\* ------------------------------------------------------------- rows, keys
KeyOf(t, r) == [i \in 1..Len(KeyCols[t]) |-> r[KeyCols[t][i]]]

\* The columns of a row that the INSERT statement binds (all but the id).
Data(r) == [c \in (DOMAIN r) \ {"id"} |-> r[c]]

RowsOf(t) == IF t \in DOMAIN db THEN db[t] ELSE {}

\* Whether two rows of table t conflict on its UNIQUE key.
SameKey(t, r, s) == \A i \in DOMAIN KeyCols[t] : r[KeyCols[t][i]] = s[KeyCols[t][i]]

\* INSERT OR REPLACE of rec deletes the stored row s when the two conflict on
\* the UNIQUE key of the table.
ReplacesNothing(t, rec, s) == FALSE

Replaces(t, rec, s) == SameKey(t, rec, s)

\* Whether binding rec violates a NOT NULL constraint of table t.
Violates(t, rec) == \E c \in NotNullCols[t] : rec[c] = NULL

\* cursor.executemany(sql, data) with statements that all succeed: one
\* INSERT OR REPLACE per record, in order.  Statement i inserts its record
\* under the next AUTOINCREMENT id; a row stays until a later statement
\* replaces it.
ExecuteMany(t, rows, id, recs) ==
  {s \in rows : \A i \in DOMAIN recs : ~Replaces(t, recs[i], s)}
    \cup {recs[i] @@ [id |-> id + i] :
            i \in {j \in DOMAIN recs :
                     \A k \in (j + 1)..Len(recs) : ~Replaces(t, recs[k], recs[j])}}

\* The first statement of the batch that fails, 0 when none does.
FirstViolation(t, recs) ==
  IF \A i \in DOMAIN recs : ~Violates(t, recs[i]) THEN 0
  ELSE CHOOSE i \in DOMAIN recs :
         Violates(t, recs[i]) /\ \A j \in 1..(i - 1) : ~Violates(t, recs[j])

\* The store st = [db, seq] after the statements for recs ran on table t.
Executed(st, t, recs) ==
  [db  |-> [st.db  EXCEPT ![t] = ExecuteMany(t, @, st.seq[t], recs)],
   seq |-> [st.seq EXCEPT ![t] = @ + Len(recs)]]

\* What the store holds once the `with conn:` block is left on an exception:
\* the connection's context manager rolls the transaction back.
NoRollback(before, partial) == partial

Rollback(before, partial) == before

\* The except clause of every operation: log and re-raise.
Reraise(failed) == failed

\* The try block of an operation that writes recs into table t: the statement
\* is prepared against the tables it names (no such table: OperationalError
\* before any row is written), the rows are written in one transaction up to
\* the first statement that fails, commit makes them durable; ret is
\* cursor.rowcount, the number of statements executed.
WriteBatch(st, needs, t, recs) ==
  IF ~(needs \subseteq DOMAIN st.db)
  THEN [db |-> st.db, seq |-> st.seq, ret |-> NULL, failed_at |-> 1,
        raised |-> Reraise(TRUE)]
  ELSE IF FirstViolation(t, recs) = 0
  THEN Executed(st, t, recs)
         @@ [ret |-> <<Len(recs)>>, failed_at |-> 0, raised |-> Reraise(FALSE)]
  ELSE Rollback([db |-> st.db, seq |-> st.seq],
                Executed(st, t, SubSeq(recs, 1, FirstViolation(t, recs) - 1)))
         @@ [ret |-> NULL, failed_at |-> FirstViolation(t, recs), raised |-> Reraise(TRUE)]

\* insert_*: `if not records: return 0`, else the try block.
UpsertNoGuard(st, t, recs) == WriteBatch(st, {t}, t, recs)

Upsert(st, t, recs) ==
  IF recs = <<>>
  THEN [db |-> st.db, seq |-> st.seq, ret |-> <<0>>, failed_at |-> 0, raised |-> FALSE]
  ELSE WriteBatch(st, {t}, t, recs)

\* History of what callers asked to store: the latest record of every key
\* handed over in a batch without a NOT NULL violation (a batch the upsert
\* contract promises to store).
Latest(t, asked, recs) ==
  {q \in asked : \A i \in DOMAIN recs : ~SameKey(t, recs[i], q)}
    \cup {recs[i] : i \in {j \in DOMAIN recs :
                             \A k \in (j + 1)..Len(recs) : ~SameKey(t, recs[k], recs[j])}}

WellFormed(t, recs) == \A i \in 1..Len(recs) : ~Violates(t, recs[i])

Request(req, t, recs) ==
  IF WellFormed(t, recs) THEN [req EXCEPT ![t] = Latest(t, @, recs)] ELSE req

\* The record of a finished call.
Finished(op, t, arg, res) ==
  [op |-> op, table |-> t, arg |-> arg, ret |-> res.ret,
   failed_at |-> res.failed_at, raised |-> res.raised]

\* The state change of one insert_* call on table t.
Call(op, t, recs) ==
  /\ \E res \in {Upsert([db |-> db, seq |-> seq], t, recs)} :
       /\ db' = res.db
       /\ seq' = res.seq
       /\ lastOp' = Finished(op, t, Len(recs), res)
  /\ requested' = Request(requested, t, recs)
  /\ UNCHANGED <<score, run>>

\* One insert_* call with a batch of the upsert interface.
Insert(op, t, recs) ==
  /\ Call(op, t, recs)
  /\ handed' = handed + Len(recs)
  /\ UNCHANGED <<writes, computes>>

\* The batches a caller may still pass: sequences of records drawn from S.
Batches(S) == UNION {[1..n -> S] : n \in 0..(MaxRecords - handed)}

\* ------------------------------------------------- inputs of the upserts
OhlcRecords ==
  {[asset |-> "BTC", ts_utc |-> <<1, 1>>, close |-> <<1>>],
   [asset |-> "BTC", ts_utc |-> <<1, 1>>, close |-> <<2>>],
   [asset |-> "BTC", ts_utc |-> <<1, 2>>, close |-> <<1>>],
   [asset |-> "BTC", ts_utc |-> <<1, 2>>, close |-> NULL]}

SentimentRecords ==
  {[as_of_date |-> 1, fng_value |-> <<25>>, classification |-> <<"Fear">>],
   [as_of_date |-> 1, fng_value |-> <<75>>, classification |-> <<"Greed">>],
   [as_of_date |-> 1, fng_value |-> NULL, classification |-> NULL]}

EtfRecords ==
  {[as_of_date |-> 1, ticker |-> "IBIT", net_flow_usd |-> <<5>>],
   [as_of_date |-> 1, ticker |-> "IBIT", net_flow_usd |-> NULL],
   [as_of_date |-> 1, ticker |-> "FBTC", net_flow_usd |-> <<5>>]}

MarketMetricsRecords ==
  {[as_of_date |-> 1, asset |-> a, volume_24h_usd |-> v, market_cap_usd |-> v,
    btc_dominance_pct |-> v] :
     <<a, v>> \in {<<"BTC", <<50>>>>, <<"BTC", NULL>>, <<"ETH", <<50>>>>}}

FundingRecords ==
  {[ts_utc |-> <<1, 1>>, asset |-> a, source |-> "BINANCE", funding_rate_pct |-> v] :
     <<a, v>> \in {<<"BTC", <<1>>>>, <<"BTC", <<2>>>>, <<"ETH", NULL>>}}

OpenInterestRecords ==
  {[as_of_date |-> 1, asset |-> a, source |-> "BINANCE", open_interest_usd |-> v] :
     <<a, v>> \in {<<"BTC", <<9>>>>, <<"BTC", <<8>>>>, <<"ETH", NULL>>}}

SocialPostRecords ==
  [post_id : {"p1", "p2"}, platform : {"reddit"}, created_utc : {<<1, 1>>},
   score : {<<1>>}, num_comments : {<<1>>},
   sentiment_compound : {<<50>>}, sentiment_label : {<<"POSITIVE">>}]

NewsArticleRecords ==
  [article_url : {"u1", "u2"}, published_at : {<<1, 1>>},
   sentiment_compound : {<<50>>}, sentiment_label : {<<"positive">>}]

SearchTrendRecords ==
  [ts_utc : {<<1, 1>>}, keyword : {"bitcoin", "ethereum"}, interest_score : {<<80>>}]

\* --------------------------------------------------- the upsert operations
insert_ohlc_data ==
  \E recs \in Batches(OhlcRecords) : Insert("insert_ohlc_data", "ohlc_hourly", recs)

insert_sentiment_data ==
  \E recs \in Batches(SentimentRecords) :
    Insert("insert_sentiment_data", "sentiment_daily", recs)

insert_etf_flows ==
  \E recs \in Batches(EtfRecords) : Insert("insert_etf_flows", "etf_flows_daily", recs)

insert_market_metrics ==
  \E recs \in Batches(MarketMetricsRecords) :
    Insert("insert_market_metrics", "market_metrics_daily", recs)

insert_funding_rates ==
  \E recs \in Batches(FundingRecords) :
    Insert("insert_funding_rates", "funding_rates_snapshots", recs)

insert_open_interest ==
  \E recs \in Batches(OpenInterestRecords) :
    Insert("insert_open_interest", "open_interest_daily", recs)

insert_social_posts_raw ==
  \E recs \in Batches(SocialPostRecords) :
    Insert("insert_social_posts_raw", "social_posts_raw", recs)

insert_news_articles_raw ==
  \E recs \in Batches(NewsArticleRecords) :
    Insert("insert_news_articles_raw", "news_articles_raw", recs)

insert_search_trends_raw ==
  \E recs \in Batches(SearchTrendRecords) :
    Insert("insert_search_trends_raw", "search_trends_raw", recs)

\* ------------------------------------------------- compute_daily_snapshot
LagBars == 24           \* LAG(close, 24)
WindowDays == 7         \* DATE(?, '-7 days')

RECURSIVE Tally(_, _, _, _)
\* The sum of v (or of v * v when squared) over the rows of S whose column
\* col holds v, for the values v of vals.
Tally(vals, S, col, squared) ==
  IF vals = {} THEN 0
  ELSE LET v == CHOOSE x \in vals : TRUE
       IN  (IF squared THEN v * v ELSE v) * Cardinality({r \in S : r[col] = <<v>>})
             + Tally(vals \ {v}, S, col, squared)

\* SUM(col) over the rows of S (col holds non-null values).
SumOver(S, col) == Tally({r[col][1] : r \in S}, S, col, FALSE)

\* SUM(col * col) over the rows of S.
SumSquares(S, col) == Tally({r[col][1] : r \in S}, S, col, TRUE)

RECURSIVE SqrtBetween(_, _, _)
\* The integer part of the square root of n, searched in lo..hi.
SqrtBetween(n, lo, hi) ==
  IF lo = hi THEN lo
  ELSE LET mid == (lo + hi + 1) \div 2
       IN  IF mid * mid <= n THEN SqrtBetween(n, mid, hi) ELSE SqrtBetween(n, lo, mid - 1)

SQRT(n) == SqrtBetween(n, 0, 46340)

\* num / den of SQL: NULL when the divisor is zero.
Divide(num, den) == IF den = 0 THEN NULL ELSE <<num \div den>>

\* DATE(ts_utc): the calendar day of a stored timestamp.
DATE(ts) == ts[1]

\* ts_utc <= DATE(?) and ts_utc >= DATE(?, '-7 days').  The stored timestamp
\* is the text 'YYYY-MM-DD HH:MM:SS+00:00' and DATE() yields the text
\* 'YYYY-MM-DD', so SQLite compares text: a timestamp on day d is longer than
\* the text of day d and therefore greater than it.
TsLeqDay(ts, d) == ts[1] < d

TsGeqDay(ts, d) == ts[1] >= d

\* ORDER BY ts_utc.
TsBefore(a, b) == a[1] < b[1] \/ (a[1] = b[1] /\ a[2] < b[2])

\* LAG(close, n) OVER (PARTITION BY asset ORDER BY ts_utc) for row r of rows.
Lag(rows, r, n) ==
  LET part      == {s \in rows : s.asset = r.asset}
      Before(x) == {s \in part : TsBefore(s.ts_utc, x.ts_utc)}
      k         == Cardinality(Before(r))
  IN  IF k < n THEN NULL
      ELSE (CHOOSE s \in part : Cardinality(Before(s)) = k - n).close

\* CTE latest_prices: the bars of the date, each with the close LagBars rows
\* earlier among the bars of the same asset on that date.
latest_prices(D) ==
  LET rows == {r \in db["ohlc_hourly"] : DATE(r.ts_utc) = D}
  IN  {[asset |-> r.asset, price_close_usd |-> r.close, ts_utc |-> r.ts_utc,
        price_24h_ago |-> Lag(rows, r, LagBars)] : r \in rows}

\* CASE WHEN price_24h_ago IS NOT NULL THEN (close - ago) / ago * 100 ELSE NULL.
PriceChangeZero(close, ago) ==
  IF ago # NULL THEN Divide((close[1] - ago[1]) * 1000, ago[1]) ELSE <<0>>

PriceChange(close, ago) ==
  IF ago # NULL THEN Divide((close[1] - ago[1]) * 1000, ago[1]) ELSE NULL

\* CTE price_metrics: the rows of latest_prices that carry the greatest
\* ts_utc of latest_prices (of all assets together).
price_metrics(D) ==
  {[asset |-> r.asset, price_close_usd |-> r.price_close_usd,
    price_chg_24h_pct |-> PriceChange(r.price_close_usd, r.price_24h_ago)] :
     r \in {x \in latest_prices(D) :
              \A y \in db["ohlc_hourly"] :
                DATE(y.ts_utc) = D => ~TsBefore(x.ts_utc, y.ts_utc)}}

\* (SQRT(AVG(c*c) - AVG(c)*AVG(c)) / AVG(c)) * 100 over n rows with sum s1
\* and sum of squares s2, which is 100 * SQRT(n*s2 - s1*s1) / s1.
CoefficientOfVariation(n, s1, s2) == Divide(SQRT(1000000 * (n * s2 - s1 * s1)), s1)

\* CTE volatility: one row per asset that has bars in the window.
volatility(D) ==
  LET rows == {r \in db["ohlc_hourly"] :
                 TsGeqDay(r.ts_utc, D - WindowDays) /\ TsLeqDay(r.ts_utc, D)}
  IN  {[asset |-> a,
        realized_vol_7d_pct |->
          LET g == {r \in rows : r.asset = a}
          IN  CoefficientOfVariation(Cardinality(g), SumOver(g, "close"),
                                     SumSquares(g, "close"))] :
         a \in {r.asset : r \in rows}}

\* CTE sentiment.
sentiment(D) ==
  {[fng_value |-> r.fng_value, fng_classification |-> r.classification] :
     r \in {x \in db["sentiment_daily"] : x.as_of_date = D}}

\* CTE etf_agg: an aggregate without GROUP BY, so always exactly one row;
\* SUM skips NULLs and is NULL when nothing is left.
etf_agg(D) ==
  LET rows == {r \in db["etf_flows_daily"] : r.as_of_date = D /\ r.net_flow_usd # NULL}
  IN  {[etf_net_flow_usd |-> IF rows = {} THEN NULL ELSE <<SumOver(rows, "net_flow_usd")>>]}

\* CTE market_metrics.
market_metrics(D) ==
  {[asset |-> r.asset, volume_24h_usd |-> r.volume_24h_usd,
    market_cap_usd |-> r.market_cap_usd, btc_dominance_pct |-> r.btc_dominance_pct] :
     r \in {x \in db["market_metrics_daily"] : x.as_of_date = D}}

\* CTE funding_agg: AVG(funding_rate_pct) per asset, in tenths.
funding_agg(D) ==
  LET rows == {r \in db["funding_rates_snapshots"] : DATE(r.ts_utc) = D}
  IN  {[asset |-> a,
        avg_funding_rate_pct |->
          LET g == {r \in rows : r.asset = a}
          IN  Divide(10 * SumOver(g, "funding_rate_pct"), Cardinality(g))] :
         a \in {r.asset : r \in rows}}

\* CTE open_interest_agg.
open_interest_agg(D) ==
  {[asset |-> r.asset, open_interest_usd |-> r.open_interest_usd] :
     r \in {x \in db["open_interest_daily"] : x.as_of_date = D}}

\* LEFT JOIN right ON pm.asset = right.asset: the matching rows of the right
\* side, or one all-NULL row when there is none.
LeftJoin(right, asset, nullrow) ==
  IF \E x \in right : x.asset = asset THEN {x \in right : x.asset = asset} ELSE {nullrow}

NoVolatility == [asset |-> "", realized_vol_7d_pct |-> NULL]

NoMarketMetrics ==
  [asset |-> "", volume_24h_usd |-> NULL, market_cap_usd |-> NULL, btc_dominance_pct |-> NULL]

NoFunding == [asset |-> "", avg_funding_rate_pct |-> NULL]

NoOpenInterest == [asset |-> "", open_interest_usd |-> NULL]

\* The rows the SELECT of compute_daily_snapshot yields for the date: each
\* row of price_metrics, left-joined with the four per-asset sources and
\* cross-joined with sentiment and etf_agg (CROSS JOIN: no row on the right
\* side, no row in the result).
SnapshotSelect(D) ==
  UNION {
    {[as_of_date |-> D, asset |-> pm.asset,
      price_close_usd |-> pm.price_close_usd,
      price_chg_24h_pct |-> pm.price_chg_24h_pct,
      volume_24h_usd |-> mm.volume_24h_usd,
      realized_vol_7d_pct |-> v.realized_vol_7d_pct,
      fng_value |-> s.fng_value, fng_classification |-> s.fng_classification,
      etf_net_flow_usd |-> e.etf_net_flow_usd,
      dominant_session |-> <<"US">>,
      btc_dominance_pct |-> mm.btc_dominance_pct,
      market_cap_usd |-> mm.market_cap_usd,
      avg_funding_rate_pct |-> fr.avg_funding_rate_pct,
      open_interest_usd |-> oi.open_interest_usd] :
       <<v, mm, fr, oi, s, e>> \in
         LeftJoin(volatility(D), pm.asset, NoVolatility)
           \X LeftJoin(market_metrics(D), pm.asset, NoMarketMetrics)
           \X LeftJoin(funding_agg(D), pm.asset, NoFunding)
           \X LeftJoin(open_interest_agg(D), pm.asset, NoOpenInterest)
           \X sentiment(D)
           \X etf_agg(D)} :
    pm \in price_metrics(D)}

\* The orders in which a SELECT may hand its rows to the INSERT.
Orderings(S) ==
  {f \in [1..Cardinality(S) -> S] : \A x \in S : \E i \in DOMAIN f : f[i] = x}

\* The try block of an INSERT OR REPLACE ... SELECT: the operation returns
\* None.
Aggregate(op, needs, t, D, selected) ==
  /\ computes < MaxComputes
  /\ computes' = computes + 1
  /\ \E rows \in {IF needs \subseteq DOMAIN db THEN selected ELSE {}} :
     \E order \in Orderings(rows) :
     \E res \in {WriteBatch([db |-> db, seq |-> seq], needs, t, order)} :
       /\ db' = res.db
       /\ seq' = res.seq
       /\ lastOp' = Finished(op, t, D, [ret |-> NULL] @@ res)
  /\ UNCHANGED <<requested, handed, writes, score, run>>

SnapshotSources ==
  {"ohlc_hourly", "sentiment_daily", "etf_flows_daily", "market_metrics_daily",
   "funding_rates_snapshots", "open_interest_daily"}

compute_daily_snapshot(D) ==
  Aggregate("compute_daily_snapshot", SnapshotSources \cup {"daily_market_snapshot"},
            "daily_market_snapshot", D, SnapshotSelect(D))

\* ------------------------------------------------- aggregation from raw
\* AVG(col) in tenths: NULLs are skipped, NULL when nothing is left.
Avg(S, col) ==
  LET nn == {r \in S : r[col] # NULL}
  IN  IF nn = {} THEN NULL ELSE Divide(10 * SumOver(nn, col), Cardinality(nn))

\* SUM(CASE WHEN sentiment_label = label THEN 1 ELSE 0 END).
CountLabel(S, label) == Cardinality({r \in S : r.sentiment_label = <<label>>})

\* score * 1.0 + num_comments * 2.0 of each row (NULL when either is NULL).
WithEngagement(S) ==
  {r @@ [engagement |-> IF r.score = NULL \/ r.num_comments = NULL THEN NULL
                        ELSE <<r.score[1] + 2 * r.num_comments[1]>>] : r \in S}

\* Statement of compute_social_sentiment_from_raw: one row per platform that
\* has posts on the date.
SocialSelect(D) ==
  LET rows == {r \in db["social_posts_raw"] : DATE(r.created_utc) = D}
  IN  {LET g == {r \in rows : r.platform = p}
       IN  [as_of_date |-> D, platform |-> p,
            mentions_count |-> <<Cardinality(g)>>,
            sentiment_score |-> Avg(g, "sentiment_compound"),
            positive_mentions |-> <<CountLabel(g, "POSITIVE")>>,
            negative_mentions |-> <<CountLabel(g, "NEGATIVE")>>,
            neutral_mentions |-> <<CountLabel(g, "NEUTRAL")>>,
            engagement_score |-> Avg(WithEngagement(g), "engagement"),
            top_keywords |-> <<"">>, source |-> <<"REDDIT">>] :
         p \in {r.platform : r \in rows}}

\* Statement of compute_news_sentiment_from_raw: one row when the date has
\* articles; shares in tenths of a percent.
NewsSelect(D) ==
  LET g == {r \in db["news_articles_raw"] : DATE(r.published_at) = D}
  IN  IF g = {} THEN {}
      ELSE {[as_of_date |-> D,
             article_count |-> <<Cardinality(g)>>,
             avg_sentiment |-> Avg(g, "sentiment_compound"),
             positive_pct |-> Divide(CountLabel(g, "positive") * 1000, Cardinality(g)),
             negative_pct |-> Divide(CountLabel(g, "negative") * 1000, Cardinality(g)),
             neutral_pct |-> Divide(CountLabel(g, "neutral") * 1000, Cardinality(g)),
             top_sources |-> <<"">>, top_keywords |-> <<"">>, source |-> <<"NEWSAPI">>]}

\* Statement of compute_search_interest_from_raw: one row per keyword with
\* trends on the date, with the change against the day before.
SearchSelect(D) ==
  LET today == {r \in db["search_trends_raw"] : DATE(r.ts_utc) = D}
      prev  == {r \in db["search_trends_raw"] : DATE(r.ts_utc) = D - 1}
  IN  {LET di == Avg({r \in today : r.keyword = k}, "interest_score")
           pi == Avg({r \in prev : r.keyword = k}, "interest_score")
       IN  [as_of_date |-> D, keyword |-> k,
            interest_score |-> di,
            interest_change_pct |->
              IF di # NULL /\ pi # NULL /\ pi[1] > 0
              THEN Divide((di[1] - pi[1]) * 1000, pi[1]) ELSE NULL,
            related_queries |-> <<"">>, source |-> <<"GOOGLE_TRENDS">>] :
         k \in {r.keyword : r \in today}}

compute_social_sentiment_from_raw(D) ==
  Aggregate("compute_social_sentiment_from_raw",
               {"social_posts_raw", "social_sentiment_daily"},
               "social_sentiment_daily", D, SocialSelect(D))

compute_news_sentiment_from_raw(D) ==
  Aggregate("compute_news_sentiment_from_raw",
               {"news_articles_raw", "news_sentiment_daily"},
               "news_sentiment_daily", D, NewsSelect(D))

compute_search_interest_from_raw(D) ==
  Aggregate("compute_search_interest_from_raw",
               {"search_trends_raw", "search_interest_daily"},
               "search_interest_daily", D, SearchSelect(D))

\* ------------------------------------------------------ sentiment classes
\* The compound score is counted in units of 0.0001.
Threshold == 500        \* 0.05

classify_strict(compound_score) ==
  IF compound_score > Threshold THEN "POSITIVE"
  ELSE IF compound_score < -Threshold THEN "NEGATIVE"
  ELSE "NEUTRAL"

classify_sentiment(compound_score) ==
  IF compound_score >= Threshold THEN "POSITIVE"
  ELSE IF compound_score <= -Threshold THEN "NEGATIVE"
  ELSE "NEUTRAL"

\* One call of classify_sentiment on the score at hand.
Classify ==
  /\ lastOp.op = "init"
  /\ lastOp' = [op |-> "classify_sentiment", table |-> "", arg |-> score,
                ret |-> <<classify_sentiment(score)>>, failed_at |-> 0, raised |-> FALSE]
  /\ UNCHANGED <<db, seq, requested, handed, writes, computes, score, run>>

\* ---------------------------------------------------- the ingestion steps
Days == {1, 2}

\* The hourly bars of one asset on one day, as the price connector delivers
\* them: n bars, slot 1 first, the first bar closing at c1 and the others at c.
Series(a, d, n, c1, c) ==
  [i \in 1..n |-> [asset |-> a, ts_utc |-> <<d, i>>, close |-> <<IF i = 1 THEN c1 ELSE c>>]]

BtcFeeds(d) ==
  {Series("BTC", d, 1, 1, 1), Series("BTC", d, MaxBars - 2, 1, 1)}
    \cup {Series("BTC", d, MaxBars, c1, 1) : c1 \in {1, 2}}

EthFeeds == {Series("ETH", 2, n, 1, 1) : n \in {1, MaxBars}}

\* What the price connector delivers when it is asked for one asset and day.
OhlcFeeds == BtcFeeds(1) \cup BtcFeeds(2) \cup EthFeeds

\* What it delivers in the first run: the bars of every asset and day whose
\* request succeeded, one after the other.
FirstFeeds ==
  {b1 \o b2 \o e : b1 \in BtcFeeds(1) \cup {<<>>}, b2 \in BtcFeeds(2) \cup {<<>>},
                   e \in EthFeeds \cup {<<>>}}

SentimentFeed == <<[as_of_date |-> 2, fng_value |-> <<25>>, classification |-> <<"Fear">>]>>

EtfFeed ==
  <<[as_of_date |-> 2, ticker |-> "IBIT", net_flow_usd |-> <<5>>],
    [as_of_date |-> 2, ticker |-> "FBTC", net_flow_usd |-> <<3>>]>>

MarketMetricsFeed ==
  <<[as_of_date |-> 2, asset |-> "BTC", volume_24h_usd |-> <<50>>,
     market_cap_usd |-> <<900>>, btc_dominance_pct |-> <<55>>]>>

FundingFeed ==
  <<[ts_utc |-> <<2, 1>>, asset |-> "BTC", source |-> "BINANCE", funding_rate_pct |-> <<1>>],
    [ts_utc |-> <<2, 2>>, asset |-> "BTC", source |-> "BINANCE", funding_rate_pct |-> <<2>>]>>

OpenInterestFeed ==
  <<[as_of_date |-> 2, asset |-> "BTC", source |-> "BINANCE", open_interest_usd |-> <<9>>]>>

\* The sources other than prices, and the sets of them whose connector
\* delivers nothing in the first run: none, any one, the three derivative and
\* flow sources, all.
Sources == {"sentiment", "etf", "market_metrics", "funding", "open_interest"}

Absences ==
  {{}} \cup {{x} : x \in Sources} \cup {{"etf", "funding", "open_interest"}, Sources}

Delivered(absent, source, feed) == IF source \in absent THEN <<>> ELSE feed

\* A later ingestion step: the records go to the store through insert_*.
Ingest(op, t, recs) ==
  /\ writes < MaxWrites
  /\ writes' = writes + 1
  /\ Call(op, t, recs)
  /\ UNCHANGED <<handed, computes>>

ingest_ohlc_data == \E recs \in OhlcFeeds : Ingest("insert_ohlc_data", "ohlc_hourly", recs)

ingest_sentiment_data == Ingest("insert_sentiment_data", "sentiment_daily", SentimentFeed)

\* initialize_database on the store st: CREATE TABLE IF NOT EXISTS for the
\* tables of TABLES; a table that exists keeps its rows.  (The version row
\* of schema_version is left out: no operation on the store reads it.)
initialize_database(st) ==
  [db  |-> [t \in TABLES \cup DOMAIN st.db |-> IF t \in DOMAIN st.db THEN st.db[t] ELSE {}],
   seq |-> [t \in TABLES \cup DOMAIN st.seq |-> IF t \in DOMAIN st.seq THEN st.seq[t] ELSE 0]]

\* verify_schema: the tables of TABLES are all in sqlite_master.
verify_schema(tables) == TABLES \subseteq DOMAIN tables

\* The tables the statements of MarketDatabase name.
EngineTables ==
  UpsertTables \cup {"daily_market_snapshot", "social_sentiment_daily",
                     "news_sentiment_daily", "search_interest_daily"}

\* A store as initialize_database creates it.
NewStore == [db |-> [t \in TABLES |-> {}], seq |-> [t \in TABLES |-> 0]]

\* ---------------------------------------------------- run_full_ingestion
\* The eleven stages in the order run_full_ingestion calls them, under the
\* keys of its results dictionary.
StageNames ==
  <<"ohlc", "sentiment", "etf_flows", "market_metrics", "funding_rates", "open_interest",
    "social_sentiment", "twitter_sentiment", "news_sentiment", "search_trends", "snapshots">>

\* The stages that store raw records and then aggregate them date by date.
RawStages == {"social_sentiment", "twitter_sentiment", "news_sentiment", "search_trends"}

\* The connectors __init__ builds only when the configuration enables them.
OptionalConnectors ==
  {"market_metrics", "binance_futures", "reddit", "twitter", "news", "trends"}

\* The connector a stage fetches from.
Connector(s) ==
  CASE s = "ohlc"              -> "coingecko"
    [] s = "sentiment"         -> "fear_greed"
    [] s = "etf_flows"         -> "etf_flows"
    [] s = "market_metrics"    -> "market_metrics"
    [] s = "funding_rates"     -> "binance_futures"
    [] s = "open_interest"     -> "binance_futures"
    [] s = "social_sentiment"  -> "reddit"
    [] s = "twitter_sentiment" -> "twitter"
    [] s = "news_sentiment"    -> "news"
    [] s = "search_trends"     -> "trends"
    [] OTHER                   -> "none"

\* The upsert a stage hands its records to, and the table it writes.
StageInsert(s) ==
  CASE s = "ohlc"              -> "insert_ohlc_data"
    [] s = "sentiment"         -> "insert_sentiment_data"
    [] s = "etf_flows"         -> "insert_etf_flows"
    [] s = "market_metrics"    -> "insert_market_metrics"
    [] s = "funding_rates"     -> "insert_funding_rates"
    [] s = "open_interest"     -> "insert_open_interest"
    [] s = "social_sentiment"  -> "insert_social_posts_raw"
    [] s = "twitter_sentiment" -> "insert_social_posts_raw"
    [] s = "news_sentiment"    -> "insert_news_articles_raw"
    [] OTHER                   -> "insert_search_trends_raw"

StageTable(s) ==
  CASE s = "ohlc"              -> "ohlc_hourly"
    [] s = "sentiment"         -> "sentiment_daily"
    [] s = "etf_flows"         -> "etf_flows_daily"
    [] s = "market_metrics"    -> "market_metrics_daily"
    [] s = "funding_rates"     -> "funding_rates_snapshots"
    [] s = "open_interest"     -> "open_interest_daily"
    [] s = "social_sentiment"  -> "social_posts_raw"
    [] s = "twitter_sentiment" -> "social_posts_raw"
    [] s = "news_sentiment"    -> "news_articles_raw"
    [] OTHER                   -> "search_trends_raw"

\* The aggregation a stage calls for each date: the operation, the tables its
\* statement names and the table it writes.
StageAggregation(s) ==
  CASE s = "snapshots" ->
         [op |-> "compute_daily_snapshot", t |-> "daily_market_snapshot",
          needs |-> SnapshotSources \cup {"daily_market_snapshot"}]
    [] s = "news_sentiment" ->
         [op |-> "compute_news_sentiment_from_raw", t |-> "news_sentiment_daily",
          needs |-> {"news_articles_raw", "news_sentiment_daily"}]
    [] s = "search_trends" ->
         [op |-> "compute_search_interest_from_raw", t |-> "search_interest_daily",
          needs |-> {"search_trends_raw", "search_interest_daily"}]
    [] OTHER ->
         [op |-> "compute_social_sentiment_from_raw", t |-> "social_sentiment_daily",
          needs |-> {"social_posts_raw", "social_sentiment_daily"}]

\* The rows the statement of the stage's aggregation selects for date D.
Selected(s, D) ==
  CASE s = "snapshots"      -> SnapshotSelect(D)
    [] s = "news_sentiment" -> NewsSelect(D)
    [] s = "search_trends"  -> SearchSelect(D)
    [] OTHER                -> SocialSelect(D)

\* ingest_twitter_sentiment calls compute_social_sentiment_from_raw(date,
\* platform='twitter'); the method takes no such parameter, so the call
\* raises TypeError before it touches the store.
BadCall(s) == s = "twitter_sentiment"

\* The number of dates a stage aggregates: compute_snapshots(days=7),
\* ingest_search_trends(days=7), and nlp_days (default 1) for the others.
SnapshotDays == 7
TrendDays == 7
NlpDays == 1

Window(s) ==
  CASE s = "snapshots"     -> SnapshotDays
    [] s = "search_trends" -> TrendDays
    [] OTHER               -> NlpDays

\* datetime.now() of the run: the day the connectors deliver data for.
Today == 2

\* stats as a stage creates it.  records stands for 'records' and
\* 'raw_records', aggregated for 'aggregated_records' and 'snapshots'.
NewStats == [success |-> FALSE, records |-> 0, aggregated |-> 0, errors |-> <<>>,
             skipped |-> FALSE]

\* The result of a stage whose connector is disabled.
SkippedStats == [success |-> TRUE, records |-> 0, aggregated |-> 0, errors |-> <<>>,
                 skipped |-> TRUE]

\* except Exception as e: stats['errors'].append(...).
Caught(stats, date, msg) ==
  [stats EXCEPT !.errors = Append(@, [date |-> date, msg |-> msg])]

\* str(e) of the error an upsert or aggregation raised.
ErrorMessage(st, needs) ==
  IF needs \subseteq DOMAIN st.db THEN "NOT NULL constraint failed" ELSE "no such table"

\* The stats after the call of the upsert: count and success are set once
\* the upsert has returned; when it raises, the except clause takes over.
AfterInsertSuccessFirst(stats, res, msg) ==
  IF res.raised THEN Caught([stats EXCEPT !.success = TRUE], NULL, msg)
  ELSE [stats EXCEPT !.records = res.ret[1], !.success = TRUE]

AfterInsert(stats, res, msg) ==
  IF res.raised THEN Caught(stats, NULL, msg)
  ELSE [stats EXCEPT !.records = res.ret[1], !.success = TRUE]

\* Where a stage goes after its upsert: a raw stage whose upsert returned
\* enters the loop over the dates, every other case returns the stats.
AfterUpsertAlways(s, raised) == IF s \in RawStages THEN "dates" ELSE "return"

AfterUpsert(s, raised) == IF s \in RawStages /\ ~raised THEN "dates" ELSE "return"

\* The loop over the dates: `for i in range(days)` goes on to the next date
\* whether the aggregation of date i raised or not.
NextDate(i, n, raised) == i + 1

\* The stage run_full_ingestion calls after stage number k has returned.
FollowingUnlessFailed(k, stats) == IF stats.success THEN k + 1 ELSE Len(StageNames) + 1

Following(k, stats) == k + 1

\* results['overall_success'].
OverallSuccessAll(results) == \A s \in DOMAIN results : results[s].success

OverallSuccess(results) == results["ohlc"].success /\ results["sentiment"].success

\* The tables get_record_counts counts.
CountedTables ==
  {"ohlc_hourly", "sentiment_daily", "etf_flows_daily", "daily_market_snapshot",
   "market_metrics_daily", "funding_rates_snapshots", "open_interest_daily",
   "social_posts_raw", "social_sentiment_daily", "news_articles_raw",
   "news_sentiment_daily", "search_trends_raw", "search_interest_daily"}

\* get_record_counts: the count of every table, or {} when a SELECT fails
\* (the error is logged, not raised).
get_record_counts_raising(tables) ==
  IF CountedTables \subseteq DOMAIN tables
  THEN [raised |-> FALSE, counts |-> [t \in CountedTables |-> Cardinality(tables[t])]]
  ELSE [raised |-> TRUE, counts |-> [t \in {} |-> 0]]

get_record_counts(tables) ==
  IF CountedTables \subseteq DOMAIN tables
  THEN [raised |-> FALSE, counts |-> [t \in CountedTables |-> Cardinality(tables[t])]]
  ELSE [raised |-> FALSE, counts |-> [t \in {} |-> 0]]

\* What a connector's fetch gives the stage: it raises, or it returns a list
\* of records, empty when the request failed inside the connector.
Nothing == [raised |-> FALSE, records |-> <<>>]

Records(recs) == [raised |-> FALSE, records |-> recs]

FetchRaised == [raised |-> TRUE, records |-> <<>>]

\* Two bars of which the second has no close.
BadOhlcFeed ==
  <<[asset |-> "BTC", ts_utc |-> <<Today, 1>>, close |-> <<1>>],
    [asset |-> "BTC", ts_utc |-> <<Today, 2>>, close |-> NULL]>>

SocialFeed ==
  <<[post_id |-> "p1", platform |-> "reddit", created_utc |-> <<Today, 1>>,
     score |-> <<1>>, num_comments |-> <<1>>,
     sentiment_compound |-> <<50>>, sentiment_label |-> <<"POSITIVE">>]>>

TwitterFeed ==
  <<[post_id |-> "t1", platform |-> "twitter", created_utc |-> <<Today, 1>>,
     score |-> <<1>>, num_comments |-> <<1>>,
     sentiment_compound |-> <<-50>>, sentiment_label |-> <<"NEGATIVE">>]>>

NewsFeed ==
  <<[article_url |-> "u1", published_at |-> <<Today, 1>>,
     sentiment_compound |-> <<50>>, sentiment_label |-> <<"positive">>]>>

TrendsFeed ==
  <<[ts_utc |-> <<Today, 1>>, keyword |-> "bitcoin", interest_score |-> <<80>>]>>

\* The fetch outcomes of each stage.  The price, sentiment-index and ETF
\* connectors catch every exception of their request and return [].
Fetches(s) ==
  CASE s = "ohlc"              -> {Nothing, Records(Series("BTC", Today, 2, 1, 1)),
                                   Records(BadOhlcFeed)}
    [] s = "sentiment"         -> {Nothing, Records(SentimentFeed)}
    [] s = "etf_flows"         -> {Nothing, Records(EtfFeed)}
    [] s = "market_metrics"    -> {FetchRaised, Nothing, Records(MarketMetricsFeed)}
    [] s = "funding_rates"     -> {Nothing, Records(FundingFeed)}
    [] s = "open_interest"     -> {Nothing, Records(OpenInterestFeed)}
    [] s = "social_sentiment"  -> {Nothing, Records(SocialFeed)}
    [] s = "twitter_sentiment" -> {Nothing, Records(TwitterFeed)}
    [] s = "news_sentiment"    -> {Nothing, Records(NewsFeed)}
    [] OTHER                   -> {Nothing, Records(TrendsFeed)}

\* The ingestion stages: every stage but the snapshot stage.
IngestionStages == {StageNames[i] : i \in DOMAIN StageNames} \ {"snapshots"}

\* The stages that save a CSV backup of their records after the upsert.
BackedUp == {"ohlc", "sentiment", "etf_flows"}

\* The stats after the CSV backup call: save_to_csv re-raises what open or
\* the writer raised, inside the try block of the stage and after success
\* and the count were set.
AfterBackupFailsStage(stats, outcome) ==
  IF outcome = "failed"
  THEN Caught([stats EXCEPT !.success = FALSE, !.records = 0], NULL, "backup failed")
  ELSE stats

AfterBackup(stats, outcome) ==
  IF outcome = "failed" THEN Caught(stats, NULL, "backup failed") ELSE stats

\* The pipeline object before run_full_ingestion is called, with the set of
\* optional connectors its configuration enabled.  lock says whether another
\* process holds the write lock of the database file.  fetch records how the
\* fetch of each stage ended; attempts, failures, fetched and committed
\* record, per stage, the aggregation calls made, the ones that raised, the
\* records the stage fetched and whether its upsert returned.  data is what
\* the fetch of each stage may return in this run, backup how a CSV backup
\* may end (csv_backup is None when the set is empty), csv how the backup of
\* each stage ended.  phase and ref serve the comparison of runs: the place
\* of this run among the runs made, and the store a first run left.
NewRun(enabled) ==
  [pc |-> "stage", stage |-> 1, day |-> 0, stats |-> NewStats, enabled |-> enabled,
   results |-> [s \in {} |-> NewStats], log |-> <<>>, lock |-> "free",
   fetch |-> [s \in {} |-> ""],
   data |-> [s \in IngestionStages |-> Fetches(s)],
   backup |-> {"saved"}, csv |-> [s \in {} |-> ""],
   phase |-> "single", ref |-> [t \in {} |-> {}],
   attempts |-> [s \in RawStages \cup {"snapshots"} |-> 0],
   failures |-> [s \in RawStages \cup {"snapshots"} |-> 0],
   fetched |-> [s \in RawStages |-> <<>>],
   committed |-> [s \in RawStages |-> FALSE],
   report |-> [r \in {} |-> 0]]

\* No run of the pipeline is in progress.
NotRunning == [NewRun({}) EXCEPT !.pc = "off"]

\* The stage the run is at.
Stage == StageNames[run.stage]

AtStage(s) == run.pc = "stage" /\ run.stage <= Len(StageNames) /\ Stage = s

\* results[s] = self.ingest_...(): the stage is entered and its fetch ends
\* with the given outcome.
Started(r, s, outcome) ==
  [r EXCEPT !.log = Append(@, <<"start", s>>), !.fetch = @ @@ (s :> outcome)]

\* The stage returns stats and run_full_ingestion goes on.
Returned(r, s, stats) ==
  [r EXCEPT !.results = @ @@ (s :> stats),
            !.log = Append(@, <<"return", s>>),
            !.stage = Following(@, stats),
            !.pc = "stage", !.day = 0, !.stats = NewStats]

\* One ingest_* method up to its return, or up to the start of its loop over
\* the dates: skip when the connector is disabled, fetch, upsert.
IngestStage(s) ==
  /\ AtStage(s)
  /\ IF Connector(s) \in OptionalConnectors \ run.enabled
     THEN /\ run' = Returned(Started(run, s, "disabled"), s, SkippedStats)
          /\ UNCHANGED <<db, seq, lastOp, requested>>
     ELSE \E fetch \in run.data[s] :
          IF fetch.raised \/ fetch.records = <<>>
          THEN /\ run' = Returned(Started(run, s, IF fetch.raised THEN "raised" ELSE "empty"),
                                  s,
                                  IF fetch.raised THEN Caught(NewStats, NULL, "fetch failed")
                                  ELSE NewStats)
               /\ UNCHANGED <<db, seq, lastOp, requested>>
          ELSE \E res \in {Upsert([db |-> db, seq |-> seq], StageTable(s), fetch.records)} :
               \E outcome \in (IF s \in BackedUp /\ ~res.raised /\ run.backup # {}
                               THEN run.backup ELSE {"none"}) :
               \E stats \in {AfterBackup(AfterInsert(NewStats, res,
                                                     ErrorMessage([db |-> db], {StageTable(s)})),
                                         outcome)} :
                 /\ db' = res.db
                 /\ seq' = res.seq
                 /\ lastOp' = Finished(StageInsert(s), StageTable(s), Len(fetch.records), res)
                 /\ requested' = Request(requested, StageTable(s), fetch.records)
                 /\ run' =
                      IF AfterUpsert(s, res.raised) = "dates"
                      THEN [Started(run, s, "records") EXCEPT
                              !.pc = "dates", !.day = 0, !.stats = stats,
                              !.fetched[s] = fetch.records, !.committed[s] = ~res.raised]
                      ELSE Returned(
                             [Started(run, s, "records") EXCEPT
                                !.csv = @ @@ (s :> outcome),
                                !.fetched = IF s \in RawStages
                                            THEN [@ EXCEPT ![s] = fetch.records] ELSE @],
                             s, stats)
  /\ UNCHANGED <<handed, writes, computes, score>>

run_ingest_ohlc_data == IngestStage("ohlc")

run_ingest_sentiment_data == IngestStage("sentiment")

run_ingest_etf_flows == IngestStage("etf_flows")

run_ingest_market_metrics == IngestStage("market_metrics")

run_ingest_funding_rates == IngestStage("funding_rates")

run_ingest_open_interest == IngestStage("open_interest")

run_ingest_social_sentiment == IngestStage("social_sentiment")

run_ingest_twitter_sentiment == IngestStage("twitter_sentiment")

run_ingest_news_sentiment == IngestStage("news_sentiment")

run_ingest_search_trends == IngestStage("search_trends")

\* compute_snapshots up to the start of its loop over the dates.
run_compute_snapshots ==
  /\ AtStage("snapshots")
  /\ run' = [Started(run, "snapshots", "none") EXCEPT !.pc = "dates", !.day = 0, !.stats = NewStats]
  /\ UNCHANGED <<db, seq, lastOp, requested, handed, writes, computes, score>>

\* The write lock of the database file during one run: another process may
\* take it once, for any stretch of aggregation calls.  While it is held a
\* write fails with OperationalError (database is locked).
Locks(lock) ==
  CASE lock = "free" -> {"free", "held"}
    [] lock = "held" -> {"held", "released"}
    [] OTHER         -> {"released"}

\* The outcome of an aggregation call that raised without writing: the
\* store could not be written or the call itself was ill-formed.
Refused(st) == [db |-> st.db, seq |-> st.seq, ret |-> NULL, failed_at |-> 1,
                raised |-> Reraise(TRUE)]

\* One turn of the loop over the dates: the aggregation of date today - i in
\* its own try block; a raised error is appended to errors, a returned call
\* counted.
aggregate_date ==
  /\ run.pc = "dates"
  /\ run.day < Window(Stage)
  /\ \E D \in {Today - run.day}, agg \in {StageAggregation(Stage)} :
     \E lock \in Locks(run.lock) :
     \E fault \in {lock = "held"} :
     \E rows \in {IF fault \/ BadCall(Stage) \/ ~(agg.needs \subseteq DOMAIN db)
                  THEN {} ELSE Selected(Stage, D)} :
     \E order \in Orderings(rows) :
     \E res \in {IF fault \/ BadCall(Stage) THEN Refused([db |-> db, seq |-> seq])
                 ELSE WriteBatch([db |-> db, seq |-> seq], agg.needs, agg.t, order)} :
       /\ db' = res.db
       /\ seq' = res.seq
       /\ lastOp' = Finished(agg.op, agg.t, D, [ret |-> NULL] @@ res)
       /\ run' = [run EXCEPT
                    !.day = NextDate(@, Window(Stage), res.raised),
                    !.stats = IF res.raised
                              THEN Caught(@, <<D>>,
                                          IF fault THEN "database is locked"
                                          ELSE IF BadCall(Stage) THEN "unexpected keyword argument"
                                          ELSE ErrorMessage([db |-> db], agg.needs))
                              ELSE [@ EXCEPT !.aggregated = @ + 1],
                    !.attempts[Stage] = @ + 1,
                    !.failures[Stage] = @ + (IF res.raised THEN 1 ELSE 0),
                    !.lock = lock]
  /\ UNCHANGED <<requested, handed, writes, computes, score>>

\* The loop is over: a raw stage sets success, compute_snapshots sets it when
\* at least one date was aggregated; the stage returns.
return_stats ==
  /\ run.pc = "dates"
  /\ run.day >= Window(Stage)
  /\ run' = Returned(run, Stage,
                     [run.stats EXCEPT !.success = IF Stage = "snapshots"
                                                   THEN run.stats.aggregated > 0 ELSE TRUE])
  /\ UNCHANGED <<db, seq, lastOp, requested, handed, writes, computes, score>>

\* The end of run_full_ingestion: overall_success, the record counts and the
\* duration complete the report, which is returned.
return_results ==
  /\ run.pc = "stage"
  /\ run.stage > Len(StageNames)
  /\ \E counted \in {get_record_counts(db)} :
       run' = IF counted.raised THEN [run EXCEPT !.pc = "raised"]
              ELSE [run EXCEPT
                      !.pc = "done",
                      !.report = [results |-> run.results,
                                  overall_success |-> OverallSuccess(run.results),
                                  record_counts |-> counted.counts,
                                  duration_seconds |-> "elapsed"]]
  /\ UNCHANGED <<db, seq, lastOp, requested, handed, writes, computes, score>>

\* main(): the pipeline is built on a new file, with every optional
\* connector enabled or none, and run_full_ingestion is called.  The CSV
\* backups of this run succeed.
InitRun ==
  /\ db = NewStore.db
  /\ seq = NewStore.seq
  /\ lastOp = [op |-> "init", table |-> "", arg |-> 0, ret |-> NULL,
               failed_at |-> 0, raised |-> FALSE]
  /\ requested = [t \in UpsertTables |-> {}]
  /\ handed = 0
  /\ writes = 0
  /\ computes = 0
  /\ score = 0
  /\ run \in {NewRun(enabled) : enabled \in {OptionalConnectors, {}}}

NextRun ==
  \/ run_ingest_ohlc_data
  \/ run_ingest_sentiment_data
  \/ run_ingest_etf_flows
  \/ run_ingest_market_metrics
  \/ run_ingest_funding_rates
  \/ run_ingest_open_interest
  \/ run_ingest_social_sentiment
  \/ run_ingest_twitter_sentiment
  \/ run_ingest_news_sentiment
  \/ run_ingest_search_trends
  \/ run_compute_snapshots
  \/ aggregate_date
  \/ return_stats
  \/ return_results

SpecRun == InitRun /\ [][NextRun]_vars

\* The interpreter runs the statements of run_full_ingestion one after the
\* other: a step that can be taken is taken.
SpecRunFair == SpecRun /\ WF_vars(NextRun)

\* ------------------------------------------------------- repeated runs
\* MarketDatabase.__init__: initialize_database unless verify_schema finds
\* the tables.
MarketDatabase(st) == IF verify_schema(st.db) THEN st ELSE initialize_database(st)

\* A database file that does not exist yet.
EmptyFile == [db |-> [t \in {} |-> {}], seq |-> [t \in {} |-> 0]]

\* The adapter data of a series of runs: for every stage the one result its
\* fetch returns in each run.  The raw stages get records all or none.
RerunData ==
  {[s \in IngestionStages |->
      {CASE s = "ohlc"           -> o1
         [] s = "sentiment"      -> o2
         [] s = "etf_flows"      -> o3
         [] s = "market_metrics" -> o4
         [] s = "funding_rates"  -> o5
         [] s = "open_interest"  -> o6
         [] OTHER -> IF raw THEN CHOOSE f \in Fetches(s) : f.records # <<>> ELSE Nothing}] :
     o1 \in Fetches("ohlc"), o2 \in Fetches("sentiment"), o3 \in Fetches("etf_flows"),
     o4 \in Fetches("market_metrics"), o5 \in Fetches("funding_rates"),
     o6 \in Fetches("open_interest"), raw \in BOOLEAN}

\* The pipeline object of the next run of a series: same configuration, same
\* adapter data.
NextRunOf(r, phase, ref) ==
  [NewRun(r.enabled) EXCEPT !.data = r.data, !.backup = r.backup, !.lock = r.lock,
                            !.phase = phase, !.ref = ref]

\* main() is called again on the same database file, after a run that
\* returned or was interrupted.
run_again ==
  /\ \/ run.phase = "first" /\ run.pc = "done"
     \/ run.phase = "cut" /\ run.pc = "killed"
  /\ \E st \in {MarketDatabase([db |-> db, seq |-> seq])} :
       /\ db' = st.db
       /\ seq' = st.seq
  /\ run' = NextRunOf(run, IF run.phase = "first" THEN "repeat" ELSE "resume",
                      IF run.phase = "first" THEN db ELSE run.ref)
  /\ UNCHANGED <<lastOp, requested, handed, writes, computes, score>>

\* After a first run that returned, main() is called with the path of a
\* database file that does not exist; the store the first run left is kept
\* aside for comparison.
start_on_new_file ==
  /\ run.phase = "first" /\ run.pc = "done"
  /\ \E st \in {MarketDatabase(EmptyFile)} :
       /\ db' = st.db
       /\ seq' = st.seq
  /\ lastOp' = [op |-> "init", table |-> "", arg |-> 0, ret |-> NULL,
                failed_at |-> 0, raised |-> FALSE]
  /\ requested' = [t \in UpsertTables |-> {}]
  /\ run' = NextRunOf(run, "cut", db)
  /\ UNCHANGED <<handed, writes, computes, score>>

\* The process is killed between two stages of the run on the new file.
interrupt ==
  /\ run.phase = "cut" /\ run.pc = "stage"
  /\ run.stage \in 2..Len(StageNames)
  /\ run' = [run EXCEPT !.pc = "killed"]
  /\ UNCHANGED <<db, seq, lastOp, requested, handed, writes, computes, score>>

\* A first run on a new file with fixed adapter data and no store error.
InitRerun ==
  /\ db = NewStore.db
  /\ seq = NewStore.seq
  /\ lastOp = [op |-> "init", table |-> "", arg |-> 0, ret |-> NULL,
               failed_at |-> 0, raised |-> FALSE]
  /\ requested = [t \in UpsertTables |-> {}]
  /\ handed = 0
  /\ writes = 0
  /\ computes = 0
  /\ score = 0
  /\ run \in {[NewRun(enabled) EXCEPT !.data = data, !.lock = "released", !.phase = "first"] :
                enabled \in {OptionalConnectors, {}}, data \in RerunData}

NextRerun ==
  \/ NextRun
  \/ run_again
  \/ start_on_new_file
  \/ interrupt

SpecRerun == InitRerun /\ [][NextRerun]_vars

\* A run on a new file, the optional connectors disabled, in which the CSV
\* backup of a stage may fail (directory not writable, disk full).
InitBackup ==
  /\ db = NewStore.db
  /\ seq = NewStore.seq
  /\ lastOp = [op |-> "init", table |-> "", arg |-> 0, ret |-> NULL,
               failed_at |-> 0, raised |-> FALSE]
  /\ requested = [t \in UpsertTables |-> {}]
  /\ handed = 0
  /\ writes = 0
  /\ computes = 0
  /\ score = 0
  /\ run = [NewRun({}) EXCEPT !.backup = {"saved", "failed"}]

SpecBackup == InitBackup /\ [][NextRun]_vars

\* ------------------------------------------------------------------ Init
\* MarketDatabase.__init__ on a new file: verify_schema finds no table, so
\* initialize_database creates the tables of TABLES, all empty.
Init ==
  /\ db = [t \in TABLES |-> {}]
  /\ seq = [t \in TABLES |-> 0]
  /\ lastOp = [op |-> "init", table |-> "", arg |-> 0, ret |-> NULL,
               failed_at |-> 0, raised |-> FALSE]
  /\ requested = [t \in UpsertTables |-> {}]
  /\ handed = 0
  /\ writes = 0
  /\ computes = 0
  /\ score = 0
  /\ run = NotRunning

Next ==
  \/ insert_ohlc_data
  \/ insert_sentiment_data
  \/ insert_etf_flows
  \/ insert_market_metrics
  \/ insert_funding_rates
  \/ insert_open_interest
  \/ insert_social_posts_raw
  \/ insert_news_articles_raw
  \/ insert_search_trends_raw

Spec == Init /\ [][Next]_vars

\* The state after the six ingestion steps of the first run on a new file,
\* in which the price connector delivered ohlc and the connectors of the
\* sources in absent nothing.
AfterFirstIngestion(ohlc, absent) ==
  \E s \in {Delivered(absent, "sentiment", SentimentFeed)},
     e \in {Delivered(absent, "etf", EtfFeed)},
     m \in {Delivered(absent, "market_metrics", MarketMetricsFeed)},
     f \in {Delivered(absent, "funding", FundingFeed)},
     o \in {Delivered(absent, "open_interest", OpenInterestFeed)} :
  \E st1 \in {Upsert(NewStore, "ohlc_hourly", ohlc)} :
  \E st2 \in {Upsert(st1, "sentiment_daily", s)} :
  \E st3 \in {Upsert(st2, "etf_flows_daily", e)} :
  \E st4 \in {Upsert(st3, "market_metrics_daily", m)} :
  \E st5 \in {Upsert(st4, "funding_rates_snapshots", f)} :
  \E st6 \in {Upsert(st5, "open_interest_daily", o)} :
  \E r1 \in {Request([t \in UpsertTables |-> {}], "ohlc_hourly", ohlc)} :
  \E r2 \in {Request(r1, "sentiment_daily", s)} :
  \E r3 \in {Request(r2, "etf_flows_daily", e)} :
  \E r4 \in {Request(r3, "market_metrics_daily", m)} :
  \E r5 \in {Request(r4, "funding_rates_snapshots", f)} :
    /\ db = st6.db
    /\ seq = st6.seq
    /\ lastOp = Finished("insert_open_interest", "open_interest_daily", Len(o), st6)
    /\ requested = Request(r5, "open_interest_daily", o)
    /\ handed = 0
    /\ writes = 0
    /\ computes = 0
    /\ score = 0
    /\ run = NotRunning

\* Aggregation over what the first ingestion run stored.
InitSnapshot ==
  \E ohlc \in FirstFeeds, absent \in Absences : AfterFirstIngestion(ohlc, absent)

NextSnapshot ==
  \/ \E D \in Days : compute_daily_snapshot(D)
  \/ \E D \in Days : compute_social_sentiment_from_raw(D)
  \/ \E D \in Days : compute_news_sentiment_from_raw(D)
  \/ \E D \in Days : compute_search_interest_from_raw(D)

SpecSnapshot == InitSnapshot /\ [][NextSnapshot]_vars

\* The pipeline running on: prices and the sentiment index are ingested
\* again between aggregations.
InitPipeline ==
  \E ohlc \in OhlcFeeds \cup {<<>>}, absent \in {{}, {"sentiment"}} :
    AfterFirstIngestion(ohlc, absent)

NextPipeline ==
  \/ ingest_ohlc_data
  \/ ingest_sentiment_data
  \/ NextSnapshot

SpecPipeline == InitPipeline /\ [][NextPipeline]_vars

\* classify_sentiment applied to any score of the range.
InitClassify ==
  /\ score \in -MaxScore..MaxScore
  /\ db = [t \in TABLES |-> {}]
  /\ seq = [t \in TABLES |-> 0]
  /\ lastOp = [op |-> "init", table |-> "", arg |-> 0, ret |-> NULL,
               failed_at |-> 0, raised |-> FALSE]
  /\ requested = [t \in UpsertTables |-> {}]
  /\ handed = 0
  /\ writes = 0
  /\ computes = 0
  /\ run = NotRunning

NextClassify == Classify

SpecClassify == InitClassify /\ [][NextClassify]_vars

\* The raw upserts and the aggregations from raw on a new store, as the raw
\* and aggregate stages of the pipeline call them.
NextRaw ==
  \/ insert_social_posts_raw
  \/ insert_news_articles_raw
  \/ insert_search_trends_raw
  \/ \E D \in Days : compute_social_sentiment_from_raw(D)
  \/ \E D \in Days : compute_news_sentiment_from_raw(D)
  \/ \E D \in Days : compute_search_interest_from_raw(D)

SpecRaw == Init /\ [][NextRaw]_vars

\* =================================================================== claims
UpsertOps ==
  {"insert_ohlc_data", "insert_sentiment_data", "insert_etf_flows",
   "insert_market_metrics", "insert_funding_rates", "insert_open_interest",
   "insert_social_posts_raw", "insert_news_articles_raw", "insert_search_trends_raw"}

\* The rows of table t stored under key k.
Stored(t, k) == {r \in RowsOf(t) : KeyOf(t, r) = k}

\* Table t holds at most one row per natural key, and for every key a caller
\* has handed to its upsert in a well-formed batch it holds exactly one row,
\* carrying the values of the most recent such record.
LastWriteWins(t) ==
  /\ \A r, s \in RowsOf(t) : KeyOf(t, r) = KeyOf(t, s) => r = s
  /\ \A q \in requested[t] :
       /\ Cardinality(Stored(t, KeyOf(t, q))) = 1
       /\ \A r \in Stored(t, KeyOf(t, q)) : Data(r) = q

\* C1: after any sequence of upsert calls, for every upsert operation (OHLC,
\* sentiment index, ETF flow, market metrics, funding rate, open interest, raw
\* post, raw article, raw trend) the target table holds at most one row per
\* natural key and the row of a key carries the most recent record written
\* with that key.
C1_UpsertLastWriteWins == \A t \in UpsertTables : LastWriteWins(t)

\* C2: an upsert called with an empty list returns 0, raises nothing and
\* leaves every table of the store (and its id sequences) unchanged.
C2_EmptyUpsertIsNoOp ==
  [][(lastOp'.op \in UpsertOps /\ lastOp'.arg = 0)
       => (lastOp'.ret = <<0>> /\ ~lastOp'.raised /\ db' = db /\ seq' = seq)]_vars

\* C2 witness: an upsert was called with an empty list on a store that holds rows.
C2_Witness ==
  /\ lastOp.op \in UpsertOps /\ lastOp.arg = 0 /\ lastOp.ret = <<0>>
  /\ \E t \in DOMAIN db : db[t] # {}

\* C3: when a statement of a non-empty upsert batch fails, the error is raised
\* to the caller and the store is what it was before the call: no record of
\* the batch stays, not even the ones written before the failing statement.
C3_FailedBatchRolledBack ==
  [][(lastOp'.op \in UpsertOps /\ lastOp'.failed_at > 0)
       => (lastOp'.raised /\ db' = db /\ seq' = seq)]_vars

\* C3 witness: the second statement of a batch failed on an existing table,
\* after the first one had written its row, and the call raised.
C3_Witness ==
  /\ lastOp.op \in UpsertOps /\ lastOp.failed_at = 2 /\ lastOp.raised
  /\ lastOp.table \in DOMAIN db

\* --------------------------------------------------------- aggregations
AggregationOps ==
  {"compute_daily_snapshot", "compute_social_sentiment_from_raw",
   "compute_news_sentiment_from_raw", "compute_search_interest_from_raw"}

\* The step is a call of the aggregation that was also the previous call on
\* the store, for the same date: nothing was written in between.
SecondCallInARow ==
  /\ lastOp.op \in AggregationOps
  /\ lastOp'.op = lastOp.op
  /\ lastOp'.arg = lastOp.arg
  /\ computes' = computes + 1

\* The values of the rows of table t, ids left out.
Contents(t) == {Data(r) : r \in RowsOf(t)}

\* C4 as stated: calling an aggregation twice in a row for the same date, with
\* no write in between, leaves the aggregate table after the second call
\* equal to the aggregate table after the first, row for row.
C4_SecondCallSameRows ==
  [][SecondCallInARow => RowsOf(lastOp.table)' = RowsOf(lastOp.table)]_vars

\* C4 amended: the second call in a row ends as the first did and leaves the
\* aggregate table with the same number of rows, holding the same values in
\* every column but the row id (and created_at), which INSERT OR REPLACE
\* assigns anew to each row it rewrites.
C4_SecondCallSameContent ==
  [][SecondCallInARow =>
       /\ lastOp'.raised = lastOp.raised
       /\ Contents(lastOp.table)' = Contents(lastOp.table)
       /\ Cardinality(RowsOf(lastOp.table))' = Cardinality(RowsOf(lastOp.table))]_vars

\* C4 witness: compute_daily_snapshot ran twice for the date with no
\* ingestion in between, and the one row of the date was written by the
\* second run.
C4_Witness ==
  /\ lastOp.op = "compute_daily_snapshot" /\ computes = 2 /\ writes = 0
  /\ Cardinality(db["daily_market_snapshot"]) = 1
  /\ \E r \in db["daily_market_snapshot"] : r.as_of_date = lastOp.arg /\ r.id = 2

\* The snapshot rows stored for date D.
SnapshotRows(D) == {r \in db["daily_market_snapshot"] : r.as_of_date = D}

SnapshotReturned == lastOp.op = "compute_daily_snapshot" /\ ~lastOp.raised

\* C5: once compute_daily_snapshot(D) has returned, the snapshot rows stored
\* for D are exactly the rows the aggregation yields from the source rows
\* stored now: no row of an earlier computation over other data remains.
C5_AggregateIsFunctionOfSources ==
  SnapshotReturned => {Data(r) : r \in SnapshotRows(lastOp.arg)} = SnapshotSelect(lastOp.arg)

\* The assets with at least one price bar on date D.
AssetsWithBars(D) == {b.asset : b \in {x \in db["ohlc_hourly"] : DATE(x.ts_utc) = D}}

HasSentiment(D) == \E x \in db["sentiment_daily"] : x.as_of_date = D

HasEtf(D) == \E x \in db["etf_flows_daily"] : x.as_of_date = D

HasMarketMetrics(D, a) ==
  \E x \in db["market_metrics_daily"] : x.as_of_date = D /\ x.asset = a

HasFunding(D, a) ==
  \E x \in db["funding_rates_snapshots"] : DATE(x.ts_utc) = D /\ x.asset = a

HasOpenInterest(D, a) ==
  \E x \in db["open_interest_daily"] : x.as_of_date = D /\ x.asset = a

\* C6: compute_daily_snapshot(D) does not raise, and for an asset with price
\* bars on D but no ETF-flow, funding-rate or open-interest rows for D it has
\* written a row (D, asset) whose etf_net_flow_usd, avg_funding_rate_pct and
\* open_interest_usd are null.
C6_MissingDerivativesGiveNulls ==
  lastOp.op = "compute_daily_snapshot" =>
    /\ ~lastOp.raised
    /\ \A a \in AssetsWithBars(lastOp.arg) :
         (~HasEtf(lastOp.arg) /\ ~HasFunding(lastOp.arg, a) /\ ~HasOpenInterest(lastOp.arg, a))
           => \E r \in SnapshotRows(lastOp.arg) :
                /\ r.asset = a
                /\ r.etf_net_flow_usd = NULL
                /\ r.avg_funding_rate_pct = NULL
                /\ r.open_interest_usd = NULL

\* C7: whichever joined source (sentiment index, ETF flow, market metrics,
\* funding rate, open interest) has no row for D, compute_daily_snapshot(D)
\* has written a row for every asset with price bars on D, and the fields of
\* each missing source are null in it.
C7_MissingSourceDoesNotBlock ==
  lastOp.op = "compute_daily_snapshot" =>
    \A a \in AssetsWithBars(lastOp.arg) :
      \E r \in SnapshotRows(lastOp.arg) :
        /\ r.asset = a
        /\ ~HasSentiment(lastOp.arg) => (r.fng_value = NULL /\ r.fng_classification = NULL)
        /\ ~HasEtf(lastOp.arg) => r.etf_net_flow_usd = NULL
        /\ ~HasMarketMetrics(lastOp.arg, a) =>
             (r.volume_24h_usd = NULL /\ r.market_cap_usd = NULL /\ r.btc_dominance_pct = NULL)
        /\ ~HasFunding(lastOp.arg, a) => r.avg_funding_rate_pct = NULL
        /\ ~HasOpenInterest(lastOp.arg, a) => r.open_interest_usd = NULL

\* The hourly bars stored for an asset.
History(a) == {b \in db["ohlc_hourly"] : b.asset = a}

\* C8: the snapshot row of an asset with fewer than 24 hourly bars in its
\* stored history has price_chg_24h_pct null, and computing it raised nothing.
C8_ShortHistoryNullChange ==
  /\ lastOp.op = "compute_daily_snapshot" => ~lastOp.raised
  /\ \A r \in db["daily_market_snapshot"] :
       Cardinality(History(r.asset)) < 24 => r.price_chg_24h_pct = NULL

\* C8 witness: a snapshot row was written for an asset with fewer than 24
\* bars, and its price change is null.
C8_Witness ==
  /\ SnapshotReturned
  /\ \E r \in SnapshotRows(lastOp.arg) :
       /\ History(r.asset) # {}
       /\ Cardinality(History(r.asset)) < 24
       /\ r.price_chg_24h_pct = NULL

\* The bars of an asset in the seven days up to and including date D.
Trailing(a, D) == {b \in History(a) : DATE(b.ts_utc) >= D - 7 /\ DATE(b.ts_utc) <= D}

\* C9: for an asset whose hourly closes over the trailing 7 days are all
\* equal and non-zero, the row compute_daily_snapshot writes carries
\* realized_vol_7d_pct exactly 0.
C9_ConstantSeriesZeroVolatility ==
  SnapshotReturned =>
    \A r \in SnapshotRows(lastOp.arg) :
      (\A b, c \in Trailing(r.asset, lastOp.arg) : b.close = c.close /\ b.close # <<0>>)
        => r.realized_vol_7d_pct = <<0>>

\* C10: classify_sentiment gives every compound score exactly one class:
\* positive from 0.05 upwards (0.05 included), negative from -0.05 downwards
\* (-0.05 included), neutral strictly in between.  Scores are counted
\* in units of 0.0001, so 0.05 is 500.
C10_ClassifyThresholds ==
  lastOp.op = "classify_sentiment" =>
    LET c == lastOp.arg
        k == lastOp.ret[1]
    IN  /\ k \in {"POSITIVE", "NEGATIVE", "NEUTRAL"}
        /\ k = "POSITIVE" <=> c >= 500
        /\ k = "NEGATIVE" <=> c <= -500
        /\ k = "NEUTRAL" <=> (-500 < c /\ c < 500)

\* C10 witness: the score is exactly 0.05 and was classified positive.
C10_Witness ==
  /\ lastOp.op = "classify_sentiment" /\ lastOp.arg = 500
  /\ lastOp.ret = <<"POSITIVE">>

\* ------------------------------------------------ aggregations from raw
\* The raw records of table t handed to its upsert whose timestamp column
\* col falls on date D.
Handed(t, col, D) == {q \in requested[t] : DATE(q[col]) = D}

\* C11: compute_search_interest_from_raw(D) returns, and for every keyword k
\* with raw points on D the row (D, k) of search_interest_daily carries
\* interest_change_pct = (avg_D - avg_prev) / avg_prev * 100 (in tenths of a
\* percent), avg_prev being the average interest of k on the day before D,
\* and null when k has no raw point on that day or avg_prev is zero.
C11_InterestChangeAgainstPreviousDay ==
  lastOp.op = "compute_search_interest_from_raw" =>
    LET D == lastOp.arg
        today(k) == {q \in Handed("search_trends_raw", "ts_utc", D) : q.keyword = k}
        prev(k)  == {q \in Handed("search_trends_raw", "ts_utc", D - 1) : q.keyword = k}
    IN  /\ ~lastOp.raised
        /\ \A k \in {q.keyword : q \in Handed("search_trends_raw", "ts_utc", D)} :
             \E r \in RowsOf("search_interest_daily") :
               /\ r.as_of_date = D /\ r.keyword = k
               /\ r.interest_change_pct =
                    IF prev(k) = {} \/ SumOver(prev(k), "interest_score") = 0 THEN NULL
                    ELSE <<((Avg(today(k), "interest_score")[1]
                               - Avg(prev(k), "interest_score")[1]) * 1000)
                             \div Avg(prev(k), "interest_score")[1]>>

\* C12: compute_social_sentiment_from_raw(D) returns, and for every platform
\* with raw posts dated D the row (D, platform) of social_sentiment_daily has
\* mentions_count = the number of those posts, positive_mentions = the number
\* with compound score >= 0.05, negative_mentions = the number with compound
\* score <= -0.05 and neutral_mentions the remainder.  Compound scores of raw
\* posts are counted in hundredths, so 0.05 is 5.
C12_SocialCountsByThreshold ==
  lastOp.op = "compute_social_sentiment_from_raw" =>
    LET D == lastOp.arg
        posts(p) == {q \in Handed("social_posts_raw", "created_utc", D) : q.platform = p}
        pos(p) == Cardinality({q \in posts(p) : q.sentiment_compound[1] >= 5})
        neg(p) == Cardinality({q \in posts(p) : q.sentiment_compound[1] <= -5})
    IN  /\ ~lastOp.raised
        /\ \A p \in {q.platform : q \in Handed("social_posts_raw", "created_utc", D)} :
             \E r \in RowsOf("social_sentiment_daily") :
               /\ r.as_of_date = D /\ r.platform = p
               /\ r.mentions_count = <<Cardinality(posts(p))>>
               /\ r.positive_mentions = <<pos(p)>>
               /\ r.negative_mentions = <<neg(p)>>
               /\ r.neutral_mentions = <<Cardinality(posts(p)) - pos(p) - neg(p)>>

\* C13: compute_news_sentiment_from_raw(D) returns, and when raw articles are
\* dated D the one row of news_sentiment_daily for D has article_count = the
\* number of those articles and positive_pct, negative_pct, neutral_pct = 100
\* times the share of the articles labelled positive, negative, neutral (in
\* tenths of a percent), which sum to 100.
C13_NewsShares ==
  lastOp.op = "compute_news_sentiment_from_raw" =>
    LET D == lastOp.arg
        arts == Handed("news_articles_raw", "published_at", D)
        share(label) ==
          <<(Cardinality({q \in arts : q.sentiment_label = <<label>>}) * 1000)
              \div Cardinality(arts)>>
    IN  /\ ~lastOp.raised
        /\ arts # {} =>
             /\ Cardinality({r \in RowsOf("news_sentiment_daily") : r.as_of_date = D}) = 1
             /\ \A r \in {x \in RowsOf("news_sentiment_daily") : x.as_of_date = D} :
                  /\ r.article_count = <<Cardinality(arts)>>
                  /\ r.positive_pct = share("positive")
                  /\ r.negative_pct = share("negative")
                  /\ r.neutral_pct = share("neutral")
                  /\ r.positive_pct[1] + r.negative_pct[1] + r.neutral_pct[1] = 1000

\* ------------------------------------------- claims on run_full_ingestion
\* run_full_ingestion has returned its report.
Done == run.pc = "done"

\* The result block of stage s in the returned report.
Result(s) == run.report.results[s]

\* C14: when the fetch of the ETF-flow stage fails (it returns an empty list
\* or raises) while the OHLC and the sentiment-index stage succeed, the
\* returned report has overall_success true and an ETF-flow block with
\* success false and a non-empty errors list.
C14_EtfFailureIsCaptured ==
  (/\ Done
   /\ run.fetch["etf_flows"] \in {"empty", "raised"}
   /\ Result("ohlc").success
   /\ Result("sentiment").success)
    => /\ run.report.overall_success
       /\ ~Result("etf_flows").success
       /\ Result("etf_flows").errors # <<>>

\* C15: in the returned report overall_success is true exactly when the
\* OHLC block and the sentiment-index block both have success true, whatever
\* the other nine blocks say.
C15_OverallSuccessIsOhlcAndSentiment ==
  Done => (run.report.overall_success
             <=> (Result("ohlc").success /\ Result("sentiment").success))

\* A report with overall_success true although the ETF-flow, the social and
\* the market-metrics stage failed.
C15_Witness ==
  /\ Done
  /\ run.report.overall_success
  /\ ~Result("etf_flows").success
  /\ ~Result("market_metrics").success
  /\ ~Result("social_sentiment").success

\* The stage starts and returns of a run in which every stage ran once, in
\* the order of run_full_ingestion.
FullLog ==
  [i \in 1..(2 * Len(StageNames)) |->
     <<IF i % 2 = 1 THEN "start" ELSE "return", StageNames[(i + 1) \div 2]>>]

\* C16: the stages start in the order OHLC, sentiment index, ETF flows,
\* market metrics, funding rates, open interest, social, Twitter, news,
\* search trends, snapshots; each starts once, and only after the stage
\* before it has returned; a returned report has seen all eleven start and
\* return, whichever of them failed.
C16_FixedStageOrder ==
  /\ Len(run.log) <= Len(FullLog)
  /\ run.log = SubSeq(FullLog, 1, Len(run.log))
  /\ Done => run.log = FullLog

\* A completed run whose first stage failed, and the social and news stages
\* with it.
C16_Witness ==
  /\ Done
  /\ ~Result("ohlc").success
  /\ ~Result("social_sentiment").success
  /\ ~Result("news_sentiment").success
  /\ run.log[Len(run.log)] = <<"return", "snapshots">>

\* The fields of the report run_full_ingestion returns.
ReportComplete ==
  /\ DOMAIN run.report.results = {StageNames[i] : i \in DOMAIN StageNames}
  /\ {"overall_success", "record_counts", "duration_seconds"} \subseteq DOMAIN run.report

\* C17: every run of run_full_ingestion comes to its return; the report it
\* returns has a block for each of the eleven stages, overall_success, the
\* record counts and the duration, also when every stage failed; no error
\* of a stage leaves run_full_ingestion as an exception.
C17_RunReturnsReport ==
  /\ <>Done
  /\ [](run.pc # "raised")
  /\ [](Done => ReportComplete)

\* A returned report in which all eleven stages have success false.
C17_Witness ==
  /\ Done
  /\ ReportComplete
  /\ \A s \in DOMAIN run.report.results : ~Result(s).success

\* Stage s fetched records and its upsert raised: the stage went through its
\* upsert and did not come to set success.
UpsertRaised(s) ==
  /\ s \in DOMAIN run.results
  /\ run.fetch[s] = "records"
  /\ ~run.results[s].success

\* Record rec is a row of table t.
IsStored(t, rec) ==
  /\ t \in DOMAIN db
  /\ \E row \in db[t] : \A c \in DOMAIN rec : row[c] = rec[c]

\* C18: when the upsert of a stage raises, the store is left as it was
\* before the call (none of the batch is stored), the result of the stage
\* has success false and the message of the error in its errors list, and
\* the run still goes through every later stage before it returns.
C18_UpsertFailureFailsStageOnly ==
  /\ [][\A s \in IngestionStages :
          (AtStage(s) /\ run'.log # run.log /\ run'.fetch[s] = "records" /\ lastOp'.raised)
            => /\ db' = db
               /\ s \in DOMAIN run'.results
               /\ ~run'.results[s].success
               /\ run'.results[s].records = 0
               /\ \E i \in DOMAIN run'.results[s].errors :
                    run'.results[s].errors[i].msg
                      = ErrorMessage([db |-> db], {StageTable(s)})]_vars
  /\ [](\A s \in IngestionStages :
          (Done /\ UpsertRaised(s))
            => /\ run.log = FullLog
               /\ \A k \in DOMAIN StageNames : StageNames[k] \in DOMAIN run.report.results)

\* The upsert of the OHLC stage raised on the second of two bars: no bar is
\* stored, and the sentiment-index stage after it stored its record.
C18_Witness ==
  /\ Done
  /\ UpsertRaised("ohlc")
  /\ Result("ohlc").errors[1].msg = "NOT NULL constraint failed"
  /\ db["ohlc_hourly"] = {}
  /\ Result("sentiment").success
  /\ db["sentiment_daily"] # {}

\* C19: a raw+aggregate stage that fetched records, and the snapshot stage,
\* call the aggregation for each of the n dates of their window; each date
\* that failed left one entry in errors, and the aggregated dates and the
\* failed dates add up to n.
C19_EveryDateAttempted ==
  \A s \in RawStages \cup {"snapshots"} :
    (s \in DOMAIN run.results /\ (s \in RawStages => run.fetch[s] = "records"))
      => /\ run.attempts[s] = Window(s)
         /\ Len(run.results[s].errors) = run.failures[s]
         /\ run.results[s].aggregated + run.failures[s] = Window(s)

C21_SchemaComplete ==
  \E st \in {initialize_database([db |-> db, seq |-> seq])} :
    /\ EngineTables \subseteq DOMAIN st.db
    /\ verify_schema(st.db)
    /\ initialize_database(st) = st

\* The tables of the raw records.
RawTables == {"social_posts_raw", "news_articles_raw", "search_trends_raw"}

C24_BackupFailureDoesNotFailStage ==
  \A s \in DOMAIN run.csv :
    run.csv[s] = "failed"
      => /\ run.results[s].success
         /\ run.results[s].records = Cardinality(requested[StageTable(s)])
         /\ run.results[s].records > 0
         /\ \A q \in requested[StageTable(s)] :
              \E row \in db[StageTable(s)] : Data(row) = q

\* The backup of the OHLC stage failed; the report has the stage as
\* successful, with the error recorded, and the bars are stored.
C24_Witness ==
  /\ Done
  /\ "ohlc" \in DOMAIN run.csv
  /\ run.csv["ohlc"] = "failed"
  /\ Result("ohlc").success
  /\ Result("ohlc").records = 2
  /\ Result("ohlc").errors # <<>>
  /\ Cardinality(db["ohlc_hourly"]) = 2
  /\ run.report.overall_success = Result("sentiment").success

\* ------------------------------------------------ claims on repeated runs
\* The values of a set of rows, ids left out.
ContentsOf(rows) == {Data(r) : r \in rows}

\* The records the adapter of stage s returns in every run of the series.
DataOf(s) == (CHOOSE f \in run.data[s] : TRUE).records

\* The run was killed between two stages, and every record of a stage that
\* returned successful is a row of its table.
CompletedStagesDurable ==
  run.pc = "killed"
    => \A s \in DOMAIN run.results :
         (run.results[s].success /\ run.fetch[s] = "records")
           => \A i \in DOMAIN DataOf(s) : IsStored(StageTable(s), DataOf(s)[i])

\* A full run has returned that followed, on the same file and with the same
\* adapter data, a run that returned or was interrupted.
RanAgain == Done /\ run.phase \in {"repeat", "resume"}

\* C23: a run interrupted between two stages leaves the rows of its
\* completed stages in the store; a full run after an interrupted or a
\* complete run with the same adapter data ends with the tables as one
\* uninterrupted run leaves them: no duplicate row (the same number of rows
\* in every table) and no drift (the same values in every row, the row id
\* apart, which INSERT OR REPLACE assigns anew).
C23_RerunSameContent ==
  /\ CompletedStagesDurable
  /\ RanAgain =>
       /\ DOMAIN db = DOMAIN run.ref
       /\ \A t \in DOMAIN db :
            /\ ContentsOf(db[t]) = ContentsOf(run.ref[t])
            /\ Cardinality(db[t]) = Cardinality(run.ref[t])

\* A full run after a run that was interrupted: the snapshot row is there,
\* as after one uninterrupted run, and the bars carry new ids.
C23_Witness ==
  /\ RanAgain
  /\ run.phase = "resume"
  /\ db["daily_market_snapshot"] # {}
  /\ db["ohlc_hourly"] # run.ref["ohlc_hourly"]
  /\ ContentsOf(db["ohlc_hourly"]) = ContentsOf(run.ref["ohlc_hourly"])

\* C25: a Twitter stage that fetched a non-empty list of tweets stores them
\* in the raw table, aggregates each date of its window with the social
\* aggregation restricted to platform 'twitter', and returns success true,
\* raw_records > 0, aggregated_records = the number of dates and an empty
\* errors list.
C25_TwitterStageSucceeds ==
  ("twitter_sentiment" \in DOMAIN run.results /\ run.fetch["twitter_sentiment"] = "records")
    => /\ run.results["twitter_sentiment"].success
       /\ run.results["twitter_sentiment"].records > 0
       /\ run.results["twitter_sentiment"].aggregated = Window("twitter_sentiment")
       /\ run.results["twitter_sentiment"].errors = <<>>


\* ------------------------------------- claims on the snapshot's price fields
\* The last bar of asset a on date D.
LastBars(a, D) ==
  {b \in History(a) :
     /\ DATE(b.ts_utc) = D
     /\ \A c \in History(a) : DATE(c.ts_utc) = D => ~TsBefore(b.ts_utc, c.ts_utc)}

\* C26: when the stored series of an asset has at least 24 bars before its
\* last bar of date D, the row compute_daily_snapshot(D) writes for the asset
\* carries price_chg_24h_pct = (last close of D - close 24 bars earlier in the
\* asset's time-ordered series) / that earlier close * 100; the offset counts
\* bars of the asset, whatever their day.
C26_ChangeAgainst24BarsEarlier ==
  SnapshotReturned =>
    \A r \in SnapshotRows(lastOp.arg) :
      \A last \in LastBars(r.asset, lastOp.arg) :
        Lag(History(r.asset), last, LagBars) # NULL
          => r.price_chg_24h_pct
               = PriceChange(last.close, Lag(History(r.asset), last, LagBars))

\* C27: realized_vol_7d_pct of the row compute_daily_snapshot(D) writes for
\* an asset is population standard deviation / mean * 100 of all the hourly
\* closes of the asset in the trailing 7-day window that ends with D, the
\* bars of D included.
C27_VolatilityOverWindowWithD ==
  SnapshotReturned =>
    \A r \in SnapshotRows(lastOp.arg) :
      \E g \in {Trailing(r.asset, lastOp.arg)} :
        r.realized_vol_7d_pct
          = CoefficientOfVariation(Cardinality(g), SumOver(g, "close"), SumSquares(g, "close"))

\* C28: once compute_daily_snapshot(D) has returned, with a sentiment-index
\* row stored for D, daily_market_snapshot holds exactly one row (D, a) for
\* every asset a with at least one price bar on D, whatever the timestamps
\* of the assets' last bars.
C28_NoAssetRowDropped ==
  (SnapshotReturned /\ HasSentiment(lastOp.arg)) =>
    \A a \in AssetsWithBars(lastOp.arg) :
      Cardinality({r \in SnapshotRows(lastOp.arg) : r.asset = a}) = 1


\* ------------------------------------------- claims on the end of the run
\* C29: the record counts of the returned report hold one entry for each of
\* the thirteen tables, raw and aggregate tables included, and each entry is
\* the number of rows the table holds now.
C29_RecordCountsPerTable ==
  Done =>
    /\ DOMAIN run.report.record_counts = CountedTables
    /\ \A t \in CountedTables :
         /\ t \in DOMAIN db
         /\ run.report.record_counts[t] = Cardinality(db[t])


\* The dates of the window of the snapshot stage.
SnapshotDates == {Today - i : i \in 0..(Window("snapshots") - 1)}

\* C30: the snapshot stage returns success true only if daily_market_snapshot
\* received at least one row for a date of its window, and its snapshots
\* counter is the number of dates of the window for which a snapshot row
\* exists.
C30_SnapshotsCountRows ==
  "snapshots" \in DOMAIN run.results =>
    \E dated \in {{D \in SnapshotDates : SnapshotRows(D) # {}}} :
      /\ run.results["snapshots"].success => dated # {}
      /\ run.results["snapshots"].aggregated = Cardinality(dated)

====
